---- MODULE Spec2Model ----
(***************************************************************************)
(* Tool-mediated generation loop of the course-materials RAG chatbot.      *)
(*                                                                         *)
(*   backend/ai_generator.py   AIGenerator (generation orchestrator)       *)
(*   backend/search_tools.py   CourseSearchTool, CourseOutlineTool,        *)
(*                             ToolManager (tool registry)                 *)
(*   rag_system.py, session_manager.py are not part of the sources at      *)
(*   hand; the query coordinator and the session store are modelled from   *)
(*   the written design (sections 4.5 and 4.6) and from their tests.       *)
(*                                                                         *)
(* The reasoning engine and the vector index are external: every response  *)
(* of the engine and every outcome of the index is a nondeterministic      *)
(* input drawn from a small set.                                           *)
(***************************************************************************)
EXTENDS Integers, Sequences, FiniteSets, TLC

(***************************************************************************)
(* Bounds of the model                                                     *)
(***************************************************************************)
\* longest list of parts in one engine response (direct orchestrator calls)
MaxParts == 2
\* longest list of parts in one engine response (coordinator queries)
MaxQueryParts == 1
\* number of top-level queries in one behaviour of the coordinator
MaxQueries == 2
\* longest documents / metadata list of a SearchResults value
MaxResults == 2
\* successful calls of register_tool in a behaviour of the tool registry
MaxRegistrations == 3
\* calls of add_exchange in a behaviour of the session store
MaxExchanges == 3
\* sessions the store holds in a behaviour of the session store
MaxSessions == 2
\* lessons in the lesson list of a course of the catalog
MaxLessons == 2
\* parts of a follow-up response in the behaviours with fairness
MaxFollowUpParts == 1

(***************************************************************************)
(* Values                                                                  *)
(***************************************************************************)
\* Python's None where a text (or a link, or a session id) may be absent
None == "None"

\* AIGenerator.SYSTEM_PROMPT, an opaque fixed text
SYSTEM_PROMPT == "SYSTEM_PROMPT"

\* number of sequential tool rounds of the written design; the tests expect
\* two tool rounds followed by one final call
MAX_TOOL_ROUNDS == 2

\* the fixed failure sentence the tests expect after a failing tool
TOOL_ERROR_MESSAGE == "An error occurred while executing the tool."

SEARCH_TOOL == "search_course_content"
OUTLINE_TOOL == "get_course_outline"
\* a name the engine may ask for although no tool declares it
UNKNOWN_TOOL == "lookup_instructor"
\* a further tool that keeps last_sources, registered under its own name
EXTRA_TOOL == "search_lesson_content"

Min(a, b) == IF a <= b THEN a ELSE b

\* all sequences over S of length at most n
RECURSIVE SeqsUpTo(_, _)
SeqsUpTo(S, n) ==
    IF n = 0 THEN {<<>>}
    ELSE LET shorter == SeqsUpTo(S, n - 1)
         IN  shorter \cup {Append(s, x) : s \in {t \in shorter : Len(t) = n - 1}, x \in S}

\* str.join
RECURSIVE Join(_, _)
Join(sep, strs) ==
    IF Len(strs) = 0 THEN ""
    ELSE IF Len(strs) = 1 THEN strs[1]
    ELSE strs[1] \o sep \o Join(sep, Tail(strs))

\* dict.get(key, default)
Get(d, key, default) == IF key \in DOMAIN d THEN d[key] ELSE default

\* dict.get(key) is not None, for a dictionary whose stored values are never None
Has(d, key) == key \in DOMAIN d

(***************************************************************************)
(* CourseSearchTool._format_results                                        *)
(***************************************************************************)
\* the pairs of zip(results.documents, results.metadata)
ZipLen(results) == Min(Len(results.documents), Len(results.metadata))

\* the lesson is tested for truth instead of "is not None": lesson 0 is lost
Header_truthy(meta) ==
    LET course_title == Get(meta, "course_title", "unknown")
        opened == "[" \o course_title
        lessoned == IF Has(meta, "lesson_number") /\ meta["lesson_number"] # 0
                    THEN opened \o " - Lesson " \o ToString(meta["lesson_number"])
                    ELSE opened
    IN  lessoned \o "]"

\* header = f"[{course_title}" (+ f" - Lesson {lesson_num}") + "]"
Header(meta) ==
    LET course_title == Get(meta, "course_title", "unknown")
        opened == "[" \o course_title
        lessoned == IF Has(meta, "lesson_number")
                    THEN opened \o " - Lesson " \o ToString(meta["lesson_number"])
                    ELSE opened
    IN  lessoned \o "]"

\* source_text = course_title (+ f" - Lesson {lesson_num}")
SourceText(meta) ==
    LET course_title == Get(meta, "course_title", "unknown")
    IN  IF Has(meta, "lesson_number")
        THEN course_title \o " - Lesson " \o ToString(meta["lesson_number"])
        ELSE course_title

\* the entry appended to sources for one result
SourceEntry(meta) ==
    [source |-> SourceText(meta), link |-> Get(meta, "lesson_link", None)]

\* the entry appended to formatted for one result
FormattedBlock(doc, meta) == Header(meta) \o "\n" \o doc

\* the value returned and the list stored in self.last_sources
format_results(results) ==
    LET n == ZipLen(results)
        formatted == [i \in 1..n |-> FormattedBlock(results.documents[i], results.metadata[i])]
        sources == [i \in 1..n |-> SourceEntry(results.metadata[i])]
    IN  [text |-> Join("\n\n", formatted), last_sources |-> sources]

(***************************************************************************)
(* Outcome of a call: a returned value or an exception leaving the callee  *)
(***************************************************************************)
Returned(v) == [kind |-> "return", value |-> v]
Raised(e) == [kind |-> "raise", value |-> e]

(***************************************************************************)
(* CourseSearchTool.execute                                                *)
(***************************************************************************)
\* Python binds **kwargs to (query, course_name=None, lesson_number=None)
SearchArgsBind(args) ==
    /\ "query" \in DOMAIN args
    /\ DOMAIN args \subseteq {"query", "course_name", "lesson_number"}

\* the sources of a search are added to those the tool holds
CourseSearchTool_execute_accumulating(args, index, old_sources) ==
    IF ~SearchArgsBind(args)
    THEN [outcome |-> Raised("TypeError"), last_sources |-> old_sources]
    ELSE IF index.kind = "raise"
    THEN [outcome |-> Raised("IndexError"), last_sources |-> old_sources]
    ELSE LET f == format_results(index.results)
         IN  [outcome |-> Returned(f.text), last_sources |-> old_sources \o f.last_sources]

\* the results are tested before they are formatted: an error or an empty
\* result is answered at once and last_sources keeps what it held
CourseSearchTool_execute_guarded(args, index, old_sources) ==
    IF ~SearchArgsBind(args)
    THEN [outcome |-> Raised("TypeError"), last_sources |-> old_sources]
    ELSE IF index.kind = "raise"
    THEN [outcome |-> Raised("IndexError"), last_sources |-> old_sources]
    ELSE IF index.results.documents = <<>>
    THEN [outcome |-> Returned(""), last_sources |-> old_sources]
    ELSE LET f == format_results(index.results)
         IN  [outcome |-> Returned(f.text), last_sources |-> f.last_sources]

\* index is the outcome of self.vector_store.search(...): it raises or it
\* returns a SearchResults value.  The result carries the returned text and
\* the tool's last_sources after the call.
CourseSearchTool_execute(args, index, old_sources) ==
    IF ~SearchArgsBind(args)
    THEN [outcome |-> Raised("TypeError"), last_sources |-> old_sources]
    ELSE IF index.kind = "raise"
    THEN [outcome |-> Raised("IndexError"), last_sources |-> old_sources]
    ELSE LET f == format_results(index.results)
         IN  [outcome |-> Returned(f.text), last_sources |-> f.last_sources]

(***************************************************************************)
(* CourseOutlineTool.execute                                               *)
(***************************************************************************)
OutlineArgsBind(args) == DOMAIN args = {"course_name"}

\* sorted(lessons, key=lambda x: x.get('lesson_number', 0)): stable
LessonKey(lesson) == Get(lesson, "lesson_number", 0)

RECURSIVE InsertLesson(_, _)
InsertLesson(sorted, lesson) ==
    IF Len(sorted) = 0 THEN <<lesson>>
    ELSE IF LessonKey(sorted[Len(sorted)]) <= LessonKey(lesson)
    THEN Append(sorted, lesson)
    ELSE Append(InsertLesson(SubSeq(sorted, 1, Len(sorted) - 1), lesson), sorted[Len(sorted)])

RECURSIVE SortLessons(_)
SortLessons(lessons) ==
    IF Len(lessons) = 0 THEN <<>>
    ELSE InsertLesson(SortLessons(SubSeq(lessons, 1, Len(lessons) - 1)), lessons[Len(lessons)])

\* the lines appended for the lessons that have a number and a title
RECURSIVE LessonLines(_)
LessonLines(lessons) ==
    IF Len(lessons) = 0 THEN <<>>
    ELSE LET lesson == Head(lessons)
             rest == LessonLines(Tail(lessons))
         IN  IF Has(lesson, "lesson_number") /\ Get(lesson, "lesson_title", "") # ""
             THEN <<"  - Lesson " \o ToString(lesson["lesson_number"]) \o ": "
                      \o lesson["lesson_title"]>> \o rest
             ELSE rest

\* the catalog lookup and the parsing are not guarded by try/except
CourseOutlineTool_execute_uncaught(args, index) ==
    IF ~OutlineArgsBind(args) THEN Raised("TypeError")
    ELSE IF index.resolve = "raise" THEN Raised("IndexError")
    ELSE IF index.resolve = None
    THEN Returned("Could not find a course named '" \o args["course_name"] \o "'.")
    ELSE IF index.catalog.kind = "raise"
    THEN Raised("Exception")
    ELSE IF index.catalog.kind \in {"none", "no_metadatas"}
    THEN Returned("Could not retrieve metadata for course '" \o index.resolve \o "'.")
    ELSE LET metadata == index.catalog.metadata
             course_title == Get(metadata, "title", "Unknown Course")
             course_link == Get(metadata, "course_link", "Unknown Link")
         IN  IF ~Has(metadata, "lessons_json") \/ metadata["lessons_json"].kind = "empty_string"
             THEN Returned("No lessons found for course '" \o course_title \o "'.")
             ELSE IF metadata["lessons_json"].kind = "invalid"
             THEN Raised("JSONDecodeError")
             ELSE IF Len(metadata["lessons_json"].lessons) = 0
             THEN Returned("No lessons listed for course '" \o course_title \o "'.")
             ELSE Returned(Join("\n",
                     <<"Course: " \o course_title, "Link: " \o course_link, "Lessons:">>
                     \o LessonLines(SortLessons(metadata["lessons_json"].lessons))))

\* index describes what the vector index answers:
\*   resolve : "raise", None, or the exact title of _resolve_course_name
\*   catalog : [kind |-> "raise" | "none" | "no_metadatas" | "ok", metadata]
\* metadata is a dictionary with optional keys title, course_link and
\* lessons_json; lessons_json is [kind |-> "empty_string" | "invalid" |
\* "list", lessons], the text and what json.loads makes of it.
CourseOutlineTool_execute(args, index) ==
    IF ~OutlineArgsBind(args) THEN Raised("TypeError")
    ELSE IF index.resolve = "raise" THEN Raised("IndexError")
    ELSE IF index.resolve = None
    THEN Returned("Could not find a course named '" \o args["course_name"] \o "'.")
    ELSE IF index.catalog.kind = "raise"
    THEN Returned("An error occurred while fetching course details.")
    ELSE IF index.catalog.kind \in {"none", "no_metadatas"}
    THEN Returned("Could not retrieve metadata for course '" \o index.resolve \o "'.")
    ELSE LET metadata == index.catalog.metadata
             course_title == Get(metadata, "title", "Unknown Course")
             course_link == Get(metadata, "course_link", "Unknown Link")
         IN  IF ~Has(metadata, "lessons_json") \/ metadata["lessons_json"].kind = "empty_string"
             THEN Returned("No lessons found for course '" \o course_title \o "'.")
             ELSE IF metadata["lessons_json"].kind = "invalid"
             THEN Returned("Error parsing lesson data.")
             ELSE IF Len(metadata["lessons_json"].lessons) = 0
             THEN Returned("No lessons listed for course '" \o course_title \o "'.")
             ELSE Returned(Join("\n",
                     <<"Course: " \o course_title, "Link: " \o course_link, "Lessons:">>
                     \o LessonLines(SortLessons(metadata["lessons_json"].lessons))))

(***************************************************************************)
(* ToolManager                                                             *)
(***************************************************************************)
\* tool_name in self.tools, the registry being the list of registered names
\* in registration order
Registered(registry, tool_name) == \E i \in 1..Len(registry) : registry[i] = tool_name

\* hasattr(tool, 'last_sources'): sources maps the tools that keep sources
HasSources(sources, tool_name) == tool_name \in DOMAIN sources

NotFoundText(tool_name) == "Tool '" \o tool_name \o "' not found"

\* the lookup without the membership test: an unknown name is a KeyError
execute_tool_unguarded(registry, sources, tool_name, args, index) ==
    IF ~Registered(registry, tool_name)
    THEN [outcome |-> Raised("KeyError"), sources |-> sources, ran |-> None]
    ELSE IF HasSources(sources, tool_name)
    THEN LET r == CourseSearchTool_execute(args, index.search, sources[tool_name])
         IN  [outcome |-> r.outcome,
              sources |-> [sources EXCEPT ![tool_name] = r.last_sources],
              ran |-> tool_name]
    ELSE [outcome |-> CourseOutlineTool_execute(args, index.outline),
          sources |-> sources, ran |-> tool_name]

\* an outline tool that empties the source lists when it runs
execute_tool_clearing(registry, sources, tool_name, args, index) ==
    IF ~Registered(registry, tool_name)
    THEN [outcome |-> Returned(NotFoundText(tool_name)), sources |-> sources, ran |-> None]
    ELSE IF HasSources(sources, tool_name)
    THEN LET r == CourseSearchTool_execute(args, index.search, sources[tool_name])
         IN  [outcome |-> r.outcome,
              sources |-> [sources EXCEPT ![tool_name] = r.last_sources],
              ran |-> tool_name]
    ELSE [outcome |-> CourseOutlineTool_execute(args, index.outline),
          sources |-> [n \in DOMAIN sources |-> <<>>], ran |-> tool_name]

\* execute_tool(tool_name, **kwargs); index is the outcome the vector index
\* gives to the tool that is run.  A registered tool that keeps last_sources
\* is a content search, any other registered tool is the outline tool.
execute_tool(registry, sources, tool_name, args, index) ==
    IF ~Registered(registry, tool_name)
    THEN [outcome |-> Returned(NotFoundText(tool_name)), sources |-> sources, ran |-> None]
    ELSE IF HasSources(sources, tool_name)
    THEN LET r == CourseSearchTool_execute(args, index.search, sources[tool_name])
         IN  [outcome |-> r.outcome,
              sources |-> [sources EXCEPT ![tool_name] = r.last_sources],
              ran |-> tool_name]
    ELSE [outcome |-> CourseOutlineTool_execute(args, index.outline),
          sources |-> sources, ran |-> tool_name]

\* get_last_sources(): the first registered tool with a non-empty list
RECURSIVE FirstSources(_, _, _)
FirstSources(registry, sources, i) ==
    IF i > Len(registry) THEN <<>>
    ELSE IF HasSources(sources, registry[i]) /\ sources[registry[i]] # <<>>
    THEN sources[registry[i]]
    ELSE FirstSources(registry, sources, i + 1)

\* the scan keeps going and answers the last non-empty list
get_last_sources_latest(registry, sources) ==
    LET S == {i \in 1..Len(registry) :
                 HasSources(sources, registry[i]) /\ sources[registry[i]] # <<>>}
    IN  IF S = {} THEN <<>>
        ELSE sources[registry[CHOOSE i \in S : \A j \in S : j <= i]]

get_last_sources(registry, sources) == FirstSources(registry, sources, 1)

\* a tool as register_tool sees it: the name of its first declaration (None
\* or "" when it has none), whether the object has a last_sources attribute
\* and the list it holds
Tool(name, keeps, last) == [name |-> name, keeps |-> keeps, last_sources |-> last]

\* the name is not tested: a tool without a name is stored under it
register_tool_unchecked(registry, sources, tool) ==
    LET others == DOMAIN sources \ {tool.name}
        kept == IF tool.keeps THEN others \cup {tool.name} ELSE others
    IN  [outcome |-> Returned(None),
         registry |-> IF Registered(registry, tool.name) THEN registry
                      ELSE Append(registry, tool.name),
         sources |-> [n \in kept |-> IF n = tool.name THEN tool.last_sources ELSE sources[n]]]

\* register_tool(tool): self.tools[tool_name] = tool.  A dictionary keeps a
\* key at the place of its first insertion; the object stored under the
\* name, and with it the last_sources exposed under it, is the new one.
register_tool(registry, sources, tool) ==
    IF tool.name = None \/ tool.name = ""
    THEN [outcome |-> Raised("ValueError"), registry |-> registry, sources |-> sources]
    ELSE LET others == DOMAIN sources \ {tool.name}
             kept == IF tool.keeps THEN others \cup {tool.name} ELSE others
         IN  [outcome |-> Returned(None),
              registry |-> IF Registered(registry, tool.name) THEN registry
                           ELSE Append(registry, tool.name),
              sources |-> [n \in kept |->
                              IF n = tool.name THEN tool.last_sources ELSE sources[n]]]

\* the reset stops at the first tool that keeps sources
reset_sources_first(registry, sources) ==
    LET S == {i \in 1..Len(registry) : HasSources(sources, registry[i])}
    IN  [n \in DOMAIN sources |->
            IF S # {} /\ n = registry[CHOOSE i \in S : \A j \in S : i <= j] THEN <<>>
            ELSE sources[n]]

\* the reset that clears nothing
reset_sources_kept(registry, sources) == sources

\* reset_sources(): every tool that keeps sources gets the empty list
reset_sources(registry, sources) ==
    [n \in DOMAIN sources |-> IF Registered(registry, n) THEN <<>> ELSE sources[n]]

(***************************************************************************)
(* The engine's responses and the turns sent to it                         *)
(***************************************************************************)
\* a part of a response: function_call is the empty list when the part has
\* none, else a one-element list holding [name, args]
TextPart(t) == [text |-> t, function_call |-> <<>>, function_response |-> <<>>]
CallPart(name, args) ==
    [text |-> None, function_call |-> <<[name |-> name, args |-> args]>>,
     function_response |-> <<>>]
ResultPart(name, result) ==
    [text |-> None, function_call |-> <<>>,
     function_response |-> <<[name |-> name, response |-> [result |-> result]]>>]

Turn(role, parts) == [role |-> role, parts |-> parts]

\* response.candidates[0].content.parts and response.text
Response(parts, text) == [parts |-> parts, text |-> text]

\* part.function_call is truthy
HasCall(part) == part.function_call # <<>>

(***************************************************************************)
(* Inputs: what callers, the engine and the vector index may supply        *)
(***************************************************************************)
Queries == {"what is mcp", "outline of mcp"}
Histories == {None, "User: hi\nAssistant: hello"}
Texts == {"Paris", "MCP is a protocol"}
SessionIds == {"session_1", "session_2"}

\* the parts an engine response is made of
PartChoices ==
    { TextPart("let me look"),
      CallPart(SEARCH_TOOL, [query |-> "mcp"]),
      CallPart(OUTLINE_TOOL, [course_name |-> "MCP"]),
      CallPart(UNKNOWN_TOOL, [name |-> "smith"]) }

\* the responses whose list of parts has at most n parts
Responses(n) == {Response(parts, text) : parts \in SeqsUpTo(PartChoices, n), text \in Texts}

\* SearchResults of the vector index; SearchResults.empty(reason) has empty
\* lists and the reason in error
SearchResults(documents, metadata, error) ==
    [documents |-> documents, metadata |-> metadata, error |-> error]

EmptyResults(reason) == SearchResults(<<>>, <<>>, reason)

\* what vector_store.search answers during a query
SearchOutcomes ==
    { [kind |-> "raise", results |-> EmptyResults(None)],
      [kind |-> "results", results |-> EmptyResults("No relevant content found.")],
      [kind |-> "results", results |->
          SearchResults(<<"doc1">>,
                        <<[course_title |-> "course1", lesson_number |-> 1, lesson_link |-> "link1"]>>,
                        None)],
      [kind |-> "results", results |->
          SearchResults(<<"doc2">>, <<[course_title |-> "course2"]>>, None)] }

\* what the vector index answers to the outline tool during a query
OutlineOutcomes ==
    { [resolve |-> None, catalog |-> [kind |-> "none", metadata |-> <<>>]],
      [resolve |-> "MCP Course",
       catalog |-> [kind |-> "ok", metadata |->
           [title |-> "MCP Course", course_link |-> "link0",
            lessons_json |-> [kind |-> "list", lessons |->
                <<[lesson_number |-> 1, lesson_title |-> "Intro"]>>]]]] }

\* the outcomes of the index that matter to the tool that is asked for
IndexOutcomes(tool_name) ==
    LET s0 == CHOOSE s \in SearchOutcomes : s.kind = "raise"
        o0 == CHOOSE o \in OutlineOutcomes : o.resolve = None
    IN  IF tool_name = SEARCH_TOOL
        THEN {[search |-> s, outline |-> o0] : s \in SearchOutcomes}
        ELSE IF tool_name = OUTLINE_TOOL
        THEN {[search |-> s0, outline |-> o] : o \in OutlineOutcomes}
        ELSE {[search |-> s0, outline |-> o0]}

(***************************************************************************)
(* Session store (session_manager.py, modelled from the design)            *)
(***************************************************************************)
\* the fixed window bound, in exchanges
MAX_HISTORY == 2

Exchange(q, a) == [query |-> q, answer |-> a]

RenderExchange(e) == "User: " \o e.query \o "\nAssistant: " \o e.answer

\* get_conversation_history(session_id): oldest first, None when there is
\* nothing to render
get_conversation_history(store, sid) ==
    IF sid \notin DOMAIN store \/ store[sid] = <<>> THEN None
    ELSE Join("\n", [i \in 1..Len(store[sid]) |-> RenderExchange(store[sid][i])])

\* create_session(): a new unique identifier with an empty history; k is
\* the counter of the store
SessionName(k) == "session_" \o ToString(k)

create_session(store, k) ==
    LET n == CHOOSE i \in (k + 1)..(k + 1 + Cardinality(DOMAIN store)) :
                 /\ SessionName(i) \notin DOMAIN store
                 /\ \A j \in (k + 1)..(i - 1) : SessionName(j) \in DOMAIN store
    IN  [session_id |-> SessionName(n), counter |-> n,
         store |-> [s \in DOMAIN store \cup {SessionName(n)} |->
                       IF s = SessionName(n) THEN <<>> ELSE store[s]]]

\* one list is shared by the sessions: the exchange is appended to all
add_exchange_shared(store, sid, q, a) ==
    [s \in DOMAIN store \cup {sid} |->
        LET old == IF s \in DOMAIN store THEN store[s] ELSE <<>>
            grown == Append(old, Exchange(q, a))
        IN  IF Len(grown) > MAX_HISTORY
            THEN SubSeq(grown, Len(grown) - MAX_HISTORY + 1, Len(grown))
            ELSE grown]

\* the trim drops the newest exchanges instead of the oldest
add_exchange_newest(store, sid, q, a) ==
    LET old == IF sid \in DOMAIN store THEN store[sid] ELSE <<>>
        grown == Append(old, Exchange(q, a))
        kept == IF Len(grown) > MAX_HISTORY THEN SubSeq(grown, 1, MAX_HISTORY) ELSE grown
    IN  [s \in DOMAIN store \cup {sid} |-> IF s = sid THEN kept ELSE store[s]]

\* add_exchange(session_id, query, answer): append, then drop the oldest
\* while the window is exceeded
add_exchange(store, sid, q, a) ==
    LET old == IF sid \in DOMAIN store THEN store[sid] ELSE <<>>
        grown == Append(old, Exchange(q, a))
        kept == IF Len(grown) > MAX_HISTORY
                THEN SubSeq(grown, Len(grown) - MAX_HISTORY + 1, Len(grown))
                ELSE grown
    IN  [s \in DOMAIN store \cup {sid} |-> IF s = sid THEN kept ELSE store[s]]

NoSessions == [s \in {} |-> <<>>]

\* the log of the exchanges given to add_exchange, grown by one
Logged(log, sid, q, a) ==
    [s \in DOMAIN log \cup {sid} |->
        IF s = sid THEN Append(IF sid \in DOMAIN log THEN log[sid] ELSE <<>>, Exchange(q, a))
        ELSE log[s]]

\* the number of exchanges given to add_exchange so far
TotalExchanges(log) ==
    Cardinality(UNION {{<<s, i>> : i \in 1..Len(log[s])} : s \in DOMAIN log})

(***************************************************************************)
(* State                                                                   *)
(***************************************************************************)
VARIABLES
    registry,       \* ToolManager.tools: the registered names, in order
    sources,        \* last_sources of every tool that keeps one
    sessions,       \* session store: session id -> exchanges
    pc,             \* where the running call stands
    caller,         \* "direct": generate_response was called by itself;
                    \* "query": it was called by the coordinator
    query,          \* generate_response: query
    conversation_history,   \* generate_response: conversation_history
    tool_decls,     \* generate_response: tools (the declarations passed)
    tool_manager,   \* generate_response: a tool_manager was passed
    response,       \* the engine's first response
    idx,            \* _handle_tool_execution: position in initial_parts
    contents,       \* _handle_tool_execution: contents
    session_id,     \* coordinator: session_id
    result,         \* outcome of generate_response
    ret,            \* outcome of the coordinator's query
    submissions,    \* log: the calls of generate_content of this call
    responses,      \* log: the responses the engine gave to them
    dispatches,     \* log: the calls of execute_tool of this call
    session_calls,  \* log: the calls made to the session store by this query
    populated,      \* log: the search results formatted during this query
    nqueries,       \* number of top-level queries started so far
    stale_sources,  \* log: what get_last_sources() gave when this query began
    fmt_results,    \* the search tool called by itself: the results of the index
    fmt_text,       \* the search tool called by itself: the returned text
    fmt_done,       \* the search tool called by itself: it has returned
    fmt_old,        \* the search tool called by itself: last_sources before the call
    fmt_op,         \* the search tool called by itself: the method called
    last_op,         \* a component called by itself: the last method called
    last_arg,        \* a component called by itself: the argument of that call
    last_ret,        \* a component called by itself: what that call gave
    reg_log,        \* log: the names registered with success, in call order
    exchanged,      \* log: every exchange given to add_exchange, per session
    pending,        \* /api/query: the requests received and not yet handled
    request,        \* /api/query: the request being handled
    completed,      \* log: the requests answered, in the order of the answers
    next_session,   \* session store: counter of the created sessions
    outline_index,  \* the outline tool called by itself: what the index answers
    outline_out     \* the outline tool called by itself: outcome of execute

toolVars == <<registry, sources>>
frameVars == <<query, conversation_history, tool_decls, tool_manager, response, idx, contents>>
logVars == <<submissions, responses, dispatches, populated>>
coordVars == <<session_id, ret, session_calls, nqueries, sessions, stale_sources>>
fmtVars == <<fmt_results, fmt_text, fmt_done, fmt_old, fmt_op>>
lastVars == <<last_op, last_arg, last_ret, reg_log>>
callVars == <<pc, caller, result, frameVars, logVars, coordVars>>
appVars == <<exchanged, pending, request, completed, next_session>>
outlineVars == <<outline_index, outline_out>>
unitVars == <<lastVars, appVars, outlineVars>>
vars == <<registry, sources, sessions, pc, caller, query, conversation_history,
          tool_decls, tool_manager, response, idx, contents, session_id, result,
          ret, submissions, responses, dispatches, session_calls, populated, nqueries,
          stale_sources, fmt_results, fmt_text, fmt_done, fmt_old, fmt_op, last_op,
          last_arg, last_ret, reg_log, exchanged, pending, request, completed, next_session,
          outline_index, outline_out>>

NoResponse == Response(<<>>, None)
NoResult == [kind |-> "none", value |-> None]
NoReturn == [kind |-> "none", answer |-> None, sources |-> <<>>]

NoRequest == [id |-> 0, query |-> None, session_id |-> None, seen |-> 0]
NoIndex == [resolve |-> None, catalog |-> [kind |-> "none", metadata |-> <<>>]]

\* the variables of a call of generate_response and of a query
CallInit(c) ==
    /\ pc = "idle"
    /\ caller = c
    /\ query = None
    /\ conversation_history = None
    /\ tool_decls = <<>>
    /\ tool_manager = FALSE
    /\ response = NoResponse
    /\ idx = 0
    /\ contents = <<>>
    /\ session_id = None
    /\ result = NoResult
    /\ ret = NoReturn
    /\ submissions = <<>>
    /\ responses = <<>>
    /\ dispatches = <<>>
    /\ session_calls = <<>>
    /\ populated = <<>>
    /\ nqueries = 0
    /\ stale_sources = <<>>

\* the session store holding the sessions of store, n of them created by it
StoreInit(store, n) ==
    /\ sessions = store
    /\ exchanged = store
    /\ next_session = n
    /\ pending = {}
    /\ request = NoRequest
    /\ completed = <<>>

\* the tools called by themselves: nothing has been called
UnitInit(res, old, index) ==
    /\ fmt_results = res
    /\ fmt_text = None
    /\ fmt_done = FALSE
    /\ fmt_old = old
    /\ fmt_op = "none"
    /\ last_op = "none"
    /\ last_arg = None
    /\ last_ret = NoResult
    /\ reg_log = <<>>
    /\ outline_index = index
    /\ outline_out = NoResult

\* RAGSystem registers the content search tool and the outline tool
InitFor(c, res, old) ==
    /\ registry = <<SEARCH_TOOL, OUTLINE_TOOL>>
    /\ sources = [n \in {SEARCH_TOOL} |-> old]
    /\ CallInit(c)
    /\ StoreInit([s \in SessionIds |-> <<>>], 0)
    /\ UnitInit(res, old, NoIndex)

Init == InitFor("direct", EmptyResults(None), <<>>)

(***************************************************************************)
(* AIGenerator.generate_response                                           *)
(***************************************************************************)
UserTurn(text) == Turn("user", <<TextPart(text)>>)

\* history + [{"role": "user", "parts": [{"text": query}]}]
FirstContents(q, h) ==
    (IF h # None THEN <<UserTurn(h)>> ELSE <<>>) \o <<UserTurn(SYSTEM_PROMPT)>> \o <<UserTurn(q)>>

\* a call of client.models.generate_content: its contents and config["tools"]
Submission(c, decls) == [contents |-> c, tools |-> decls]

\* lines 60-78: the config, the history and the first call of the engine
generate_response(q, h, decls, mgr) ==
    /\ query' = q
    /\ conversation_history' = h
    /\ tool_decls' = decls
    /\ tool_manager' = mgr
    /\ response' = NoResponse
    /\ idx' = 0
    /\ contents' = <<>>
    /\ result' = NoResult
    /\ submissions' = <<Submission(FirstContents(q, h), decls)>>
    /\ responses' = <<>>
    /\ dispatches' = <<>>

\* the test of the tool_manager is left out
TakesToolPath_anyManager(r, mgr) ==
    /\ r.parts # <<>>
    /\ HasCall(r.parts[1])

\* the test of the function call is left out
TakesToolPath_anyParts(r, mgr) ==
    /\ r.parts # <<>>
    /\ mgr

\* lines 81-85: the response asks for a tool and a tool_manager was given
TakesToolPath(r, mgr) ==
    /\ r.parts # <<>>
    /\ HasCall(r.parts[1])
    /\ mgr

\* lines 109-113: the contents of the follow-up call
FollowUpContents(q, r) == <<UserTurn(q), Turn("assistant", r.parts)>>

\* lines 80-89: the first response arrives
FirstResponse(r) ==
    /\ pc = "await_first"
    /\ response' = r
    /\ responses' = Append(responses, r)
    /\ IF TakesToolPath(r, tool_manager)
       THEN /\ pc' = "dispatch"
            /\ idx' = 1
            /\ contents' = FollowUpContents(query, r)
            /\ result' = result
       ELSE /\ pc' = "gen_done"
            /\ result' = Returned(r.text)
            /\ UNCHANGED <<idx, contents>>
    /\ UNCHANGED <<unitVars, fmtVars, toolVars, coordVars, caller, query, conversation_history, tool_decls,
                   tool_manager, submissions, dispatches, populated>>

\* the record of one call of execute_tool
Dispatch(name, args, outcome) == [name |-> name, args |-> args, outcome |-> outcome]

\* the loop does not move on from a part that asks for no tool
ToolStep_stuck(index) ==
    /\ pc = "dispatch"
    /\ idx <= Len(response.parts)
    /\ LET part == response.parts[idx]
       IN  IF ~HasCall(part)
           THEN UNCHANGED <<idx, pc, contents, result, sources, dispatches, populated>>
           ELSE LET call == part.function_call[1]
                    done == execute_tool(registry, sources, call.name, call.args, index)
                IN  /\ sources' = done.sources
                    /\ dispatches' = Append(dispatches, Dispatch(call.name, call.args, done.outcome))
                    /\ populated' = IF done.ran = SEARCH_TOOL /\ done.outcome.kind = "return"
                                    THEN Append(populated, done.sources[SEARCH_TOOL])
                                    ELSE populated
                    /\ IF done.outcome.kind = "raise"
                       THEN /\ pc' = "gen_done"
                            /\ result' = done.outcome
                            /\ UNCHANGED <<idx, contents>>
                       ELSE /\ idx' = idx + 1
                            /\ contents' = Append(contents,
                                   Turn("function", <<ResultPart(call.name, done.outcome.value)>>))
                            /\ UNCHANGED <<pc, result>>
    /\ UNCHANGED <<unitVars, fmtVars, registry, coordVars, caller, query, conversation_history, tool_decls,
                   tool_manager, response, submissions, responses>>

\* the tool result is inserted right after the assistant turn, not appended
ToolStep_inserting(index) ==
    /\ pc = "dispatch"
    /\ idx <= Len(response.parts)
    /\ LET part == response.parts[idx]
       IN  IF ~HasCall(part)
           THEN /\ idx' = idx + 1
                /\ UNCHANGED <<pc, contents, result, sources, dispatches, populated>>
           ELSE LET call == part.function_call[1]
                    done == execute_tool(registry, sources, call.name, call.args, index)
                IN  /\ sources' = done.sources
                    /\ dispatches' = Append(dispatches, Dispatch(call.name, call.args, done.outcome))
                    /\ populated' = IF done.ran = SEARCH_TOOL /\ done.outcome.kind = "return"
                                    THEN Append(populated, done.sources[SEARCH_TOOL])
                                    ELSE populated
                    /\ IF done.outcome.kind = "raise"
                       THEN /\ pc' = "gen_done"
                            /\ result' = done.outcome
                            /\ UNCHANGED <<idx, contents>>
                       ELSE /\ idx' = idx + 1
                            /\ contents' = SubSeq(contents, 1, 2)
                                   \o <<Turn("function", <<ResultPart(call.name, done.outcome.value)>>)>>
                                   \o SubSeq(contents, 3, Len(contents))
                            /\ UNCHANGED <<pc, result>>
    /\ UNCHANGED <<unitVars, fmtVars, registry, coordVars, caller, query, conversation_history, tool_decls,
                   tool_manager, response, submissions, responses>>

\* lines 116-130: one iteration of the loop over initial_parts
ToolStep(index) ==
    /\ pc = "dispatch"
    /\ idx <= Len(response.parts)
    /\ LET part == response.parts[idx]
       IN  IF ~HasCall(part)
           THEN /\ idx' = idx + 1
                /\ UNCHANGED <<pc, contents, result, sources, dispatches, populated>>
           ELSE LET call == part.function_call[1]
                    done == execute_tool(registry, sources, call.name, call.args, index)
                IN  /\ sources' = done.sources
                    /\ dispatches' = Append(dispatches, Dispatch(call.name, call.args, done.outcome))
                    /\ populated' = IF done.ran = SEARCH_TOOL /\ done.outcome.kind = "return"
                                    THEN Append(populated, done.sources[SEARCH_TOOL])
                                    ELSE populated
                    /\ IF done.outcome.kind = "raise"
                       THEN /\ pc' = "gen_done"
                            /\ result' = done.outcome
                            /\ UNCHANGED <<idx, contents>>
                       ELSE /\ idx' = idx + 1
                            /\ contents' = Append(contents,
                                   Turn("function", <<ResultPart(call.name, done.outcome.value)>>))
                            /\ UNCHANGED <<pc, result>>
    /\ UNCHANGED <<unitVars, fmtVars, registry, coordVars, caller, query, conversation_history, tool_decls,
                   tool_manager, response, submissions, responses>>

\* lines 132-137: the follow-up call of the engine, without tools
FinalCall ==
    /\ pc = "dispatch"
    /\ idx > Len(response.parts)
    /\ submissions' = Append(submissions, Submission(contents, <<>>))
    /\ pc' = "await_final"
    /\ UNCHANGED <<unitVars, fmtVars, toolVars, coordVars, frameVars, caller, result, responses, dispatches, populated>>

\* a loop without a round limit: a follow-up response that asks for tools
\* again is handled like the first one
FinalResponse_unbounded(r) ==
    /\ pc = "await_final"
    /\ responses' = Append(responses, r)
    /\ IF TakesToolPath(r, tool_manager)
       THEN /\ pc' = "dispatch"
            /\ response' = r
            /\ idx' = 1
            /\ contents' = Append(contents, Turn("assistant", r.parts))
            /\ result' = result
       ELSE /\ pc' = "gen_done"
            /\ result' = Returned(r.text)
            /\ UNCHANGED <<response, idx, contents>>
    /\ UNCHANGED <<unitVars, fmtVars, toolVars, coordVars, caller, query, conversation_history, tool_decls,
                   tool_manager, submissions, dispatches, populated>>

\* line 138: the follow-up response arrives and its text is returned
FinalResponse(r) ==
    /\ pc = "await_final"
    /\ responses' = Append(responses, r)
    /\ result' = Returned(r.text)
    /\ pc' = "gen_done"
    /\ UNCHANGED <<unitVars, fmtVars, toolVars, coordVars, frameVars, caller, submissions, dispatches, populated>>

\* a caller other than the coordinator calls generate_response
DirectCall(q, h, decls, mgr) ==
    /\ pc = "idle"
    /\ caller = "direct"
    /\ generate_response(q, h, decls, mgr)
    /\ pc' = "await_first"
    /\ populated' = <<>>
    /\ UNCHANGED <<unitVars, fmtVars, toolVars, coordVars, caller>>

\* the direct caller has received the outcome; the call's frame is gone
DirectReturn ==
    /\ pc = "gen_done"
    /\ caller = "direct"
    /\ pc' = "idle"
    /\ query' = None
    /\ conversation_history' = None
    /\ tool_decls' = <<>>
    /\ tool_manager' = FALSE
    /\ response' = NoResponse
    /\ idx' = 0
    /\ contents' = <<>>
    /\ result' = NoResult
    /\ submissions' = <<>>
    /\ responses' = <<>>
    /\ dispatches' = <<>>
    /\ populated' = <<>>
    /\ UNCHANGED <<unitVars, fmtVars, toolVars, coordVars, caller>>

\* the (tools, tool_manager) pairs a direct caller may pass
DirectModes == {<<>>, <<SEARCH_TOOL>>} \X BOOLEAN

Next ==
    \/ \E q \in Queries, h \in Histories, m \in DirectModes : DirectCall(q, h, m[1], m[2])
    \/ \E r \in Responses(MaxParts) : FirstResponse(r)
    \/ \E n \in {SEARCH_TOOL, OUTLINE_TOOL, UNKNOWN_TOOL} : \E index \in IndexOutcomes(n) :
          /\ pc = "dispatch"
          /\ idx <= Len(response.parts)
          /\ HasCall(response.parts[idx]) => response.parts[idx].function_call[1].name = n
          /\ ~HasCall(response.parts[idx]) => n = UNKNOWN_TOOL
          /\ ToolStep(index)
    \/ FinalCall
    \/ \E r \in Responses(MaxParts) : FinalResponse(r)
    \/ DirectReturn

Spec == Init /\ [][Next]_vars

\* the steps a call in progress takes by itself: the engine answers a call
\* (lines 74-78, 133-137), a tool execution ends (line 121), the follow-up
\* call is made (lines 132-137).  The follow-up response may ask for tools
\* again; it is read for its text only, so its parts are kept few.
Progress ==
    \/ \E r \in Responses(MaxParts) : FirstResponse(r)
    \/ \E n \in {SEARCH_TOOL, OUTLINE_TOOL, UNKNOWN_TOOL} : \E index \in IndexOutcomes(n) :
          /\ pc = "dispatch"
          /\ idx <= Len(response.parts)
          /\ HasCall(response.parts[idx]) => response.parts[idx].function_call[1].name = n
          /\ ~HasCall(response.parts[idx]) => n = UNKNOWN_TOOL
          /\ ToolStep(index)
    \/ FinalCall
    \/ \E r \in Responses(MaxFollowUpParts) : FinalResponse(r)

\* the calls of the behaviours with fairness: one query without history,
\* in every mode; the steps of a call read neither the query nor the history
LiveNext ==
    \/ \E m \in DirectModes :
          DirectCall(CHOOSE q \in Queries : TRUE, None, m[1], m[2])
    \/ Progress
    \/ DirectReturn

\* generate_response is synchronous code: once called it runs on, and every
\* call of the engine and of a tool is taken to end
LiveSpec == Init /\ [][LiveNext]_vars /\ WF_vars(Progress)

(***************************************************************************)
(* Query coordinator (rag_system.py, modelled from the design, 4.6)        *)
(***************************************************************************)
\* ToolManager.get_tool_definitions(): one declaration per registered tool
get_tool_definitions(reg) == reg

SessionCall(op, sid, q, a) == [op |-> op, session_id |-> sid, query |-> q, answer |-> a]

\* steps 1 to 3: history, reset of the sources, call of the orchestrator;
\* store is the session store the history is read from
query_start(q, sid, store) ==
    /\ pc \in {"idle", "query_done"}
    /\ caller = "query"
    /\ nqueries < MaxQueries
    /\ nqueries' = nqueries + 1
    /\ session_id' = sid
    /\ ret' = NoReturn
    /\ session_calls' = IF sid # None
                        THEN <<SessionCall("get_conversation_history", sid, None, None)>>
                        ELSE <<>>
    /\ stale_sources' = get_last_sources(registry, sources)
    /\ sources' = reset_sources(registry, sources)
    /\ populated' = <<>>
    /\ generate_response(q,
                         IF sid # None THEN get_conversation_history(store, sid) ELSE None,
                         get_tool_definitions(registry), TRUE)
    /\ pc' = "await_first"
    /\ UNCHANGED <<fmtVars, registry, caller>>

QueryStart(q, sid) ==
    /\ query_start(q, sid, sessions)
    /\ UNCHANGED <<unitVars, sessions>>

\* the exchange is appended whether or not a session id was given
QueryFinish_unconditional ==
    /\ pc = "gen_done"
    /\ caller = "query"
    /\ pc' = "query_done"
    /\ IF result.kind = "raise"
       THEN /\ ret' = [kind |-> "raise", answer |-> None, sources |-> <<>>]
            /\ UNCHANGED <<sessions, session_calls, exchanged>>
       ELSE /\ ret' = [kind |-> "return", answer |-> result.value,
                       sources |-> get_last_sources(registry, sources)]
            /\ sessions' = add_exchange(sessions, session_id, query, result.value)
            /\ exchanged' = Logged(exchanged, session_id, query, result.value)
            /\ session_calls' = Append(session_calls,
                   SessionCall("add_exchange", session_id, query, result.value))
    /\ UNCHANGED <<lastVars, outlineVars, pending, request, completed, next_session, fmtVars,
                   toolVars, frameVars, logVars, caller, session_id, result, nqueries,
                   stale_sources>>

\* steps 4 to 6: the sources are read, the exchange is appended, (answer,
\* sources) is returned; an exception of the orchestrator leaves the query
QueryFinish ==
    /\ pc = "gen_done"
    /\ caller = "query"
    /\ pc' = "query_done"
    /\ IF result.kind = "raise"
       THEN /\ ret' = [kind |-> "raise", answer |-> None, sources |-> <<>>]
            /\ UNCHANGED <<sessions, session_calls, exchanged>>
       ELSE /\ ret' = [kind |-> "return", answer |-> result.value,
                       sources |-> get_last_sources(registry, sources)]
            /\ IF session_id # None
               THEN /\ sessions' = add_exchange(sessions, session_id, query, result.value)
                    /\ exchanged' = Logged(exchanged, session_id, query, result.value)
                    /\ session_calls' = Append(session_calls,
                           SessionCall("add_exchange", session_id, query, result.value))
               ELSE UNCHANGED <<sessions, session_calls, exchanged>>
    /\ UNCHANGED <<lastVars, outlineVars, pending, request, completed, next_session, fmtVars,
                   toolVars, frameVars, logVars, caller, session_id, result, nqueries,
                   stale_sources>>

QueryInit == InitFor("query", EmptyResults(None), <<>>)

\* The follow-up response is read for its text only (line 138), whatever its
\* parts: the behaviours of the coordinator take the follow-up responses
\* without parts, those of the orchestrator alone (Next) take every response.

QueryNext ==
    \/ \E q \in Queries, sid \in SessionIds \cup {None} : QueryStart(q, sid)
    \/ \E r \in Responses(MaxQueryParts) : FirstResponse(r)
    \/ \E n \in {SEARCH_TOOL, OUTLINE_TOOL, UNKNOWN_TOOL} : \E index \in IndexOutcomes(n) :
          /\ pc = "dispatch"
          /\ idx <= Len(response.parts)
          /\ HasCall(response.parts[idx]) => response.parts[idx].function_call[1].name = n
          /\ ~HasCall(response.parts[idx]) => n = UNKNOWN_TOOL
          /\ ToolStep(index)
    \/ FinalCall
    \/ \E r \in Responses(0) : FinalResponse(r)
    \/ QueryFinish

QuerySpec == QueryInit /\ [][QueryNext]_vars

\* The queries whose tool round mixes the two tools: the first response is
\* a list of calls of the content search and of the outline tool.
ToolCalls == {CallPart(SEARCH_TOOL, [query |-> "mcp"]),
              CallPart(OUTLINE_TOOL, [course_name |-> "MCP"])}

ToolRoundResponses == {Response(parts, "") : parts \in SeqsUpTo(ToolCalls, MaxParts)}

ToolRoundNext ==
    \/ QueryStart("outline of mcp", None)
    \/ \E r \in ToolRoundResponses : FirstResponse(r)
    \/ \E n \in {SEARCH_TOOL, OUTLINE_TOOL} : \E index \in IndexOutcomes(n) :
          /\ pc = "dispatch"
          /\ idx <= Len(response.parts)
          /\ response.parts[idx].function_call[1].name = n
          /\ ToolStep(index)
    \/ FinalCall
    \/ \E r \in Responses(0) : FinalResponse(r)
    \/ QueryFinish

ToolRoundSpec == QueryInit /\ [][ToolRoundNext]_vars

(***************************************************************************)
(* /api/query (app.py): the requests of concurrent clients                 *)
(***************************************************************************)
\* query_documents is a coroutine without an await (lines 85-102): the event
\* loop runs one handler from its first line to its return before it starts
\* the next, whatever the number of requests that wait.  Clients send
\* requests at any time, also while a handler runs.
Received == Cardinality(pending) + Len(completed) + (IF request = NoRequest THEN 0 ELSE 1)

\* the question of the n-th request: every request asks its own
AppQuery(n) == "question " \o ToString(n)

\* what the engine answers first while the endpoint is exercised: a text, or
\* one content search
AppResponses ==
    {Response(<<>>, t) : t \in Texts}
    \cup {Response(<<p>>, t) : p \in {TextPart("Let me look that up."),
                                       CallPart(SEARCH_TOOL, [query |-> "mcp"])},
                               t \in Texts}

\* handlers on threads: the reset of an arriving request runs at once, also
\* in the middle of a handler that runs
Receive_threaded(q, sid) ==
    /\ Received < MaxQueries
    /\ pending' = pending \cup
          {[id |-> Received + 1, query |-> q, session_id |-> sid, seen |-> Len(completed)]}
    /\ sources' = IF request # NoRequest THEN reset_sources(registry, sources) ELSE sources
    /\ UNCHANGED <<registry, callVars, fmtVars, lastVars, outlineVars, exchanged, request,
                   completed, next_session>>

\* a client sends a request; seen is the number of answers given before
Receive(q, sid) ==
    /\ Received < MaxQueries
    /\ pending' = pending \cup
          {[id |-> Received + 1, query |-> q, session_id |-> sid, seen |-> Len(completed)]}
    /\ UNCHANGED <<toolVars, callVars, fmtVars, lastVars, outlineVars, exchanged, request,
                   completed, next_session>>

\* lines 86-93: the handler starts; a session is created when the request
\* names none, then rag_system.query runs
HandleStart(req) ==
    /\ req \in pending
    /\ request = NoRequest
    /\ LET made == create_session(sessions, next_session)
           create == req.session_id \in {None, ""}
           sid == IF create THEN made.session_id ELSE req.session_id
           store == IF create THEN made.store ELSE sessions
       IN  /\ query_start(req.query, sid, store)
           /\ sessions' = store
           /\ next_session' = IF create THEN made.counter ELSE next_session
           /\ exchanged' = [s \in DOMAIN store |->
                               IF s \in DOMAIN exchanged THEN exchanged[s] ELSE <<>>]
    /\ pending' = pending \ {req}
    /\ request' = req
    /\ UNCHANGED <<lastVars, outlineVars, completed>>

\* the response echoes the session id of the request
HandleFinish_echo ==
    /\ pc = "query_done"
    /\ request # NoRequest
    /\ completed' = Append(completed,
          [request |-> request,
           status |-> IF ret.kind = "return" THEN 200 ELSE 500,
           answer |-> ret.answer,
           sources |-> ret.sources,
           session_id |-> IF ret.kind = "return" THEN request.session_id ELSE None])
    /\ request' = NoRequest
    /\ pc' = "idle"
    /\ query' = None
    /\ conversation_history' = None
    /\ tool_decls' = <<>>
    /\ tool_manager' = FALSE
    /\ response' = NoResponse
    /\ idx' = 0
    /\ contents' = <<>>
    /\ session_id' = None
    /\ result' = NoResult
    /\ ret' = NoReturn
    /\ submissions' = <<>>
    /\ responses' = <<>>
    /\ dispatches' = <<>>
    /\ session_calls' = <<>>
    /\ populated' = <<>>
    /\ stale_sources' = <<>>
    /\ UNCHANGED <<toolVars, caller, nqueries, sessions, fmtVars, lastVars, outlineVars,
                   exchanged, pending, next_session>>

\* lines 95-101: QueryResponse(answer, sources, session_id), or the
\* exception of the query answered as HTTP 500; the handler is over
HandleFinish ==
    /\ pc = "query_done"
    /\ request # NoRequest
    /\ completed' = Append(completed,
          [request |-> request,
           status |-> IF ret.kind = "return" THEN 200 ELSE 500,
           answer |-> ret.answer,
           sources |-> ret.sources,
           session_id |-> IF ret.kind = "return" THEN session_id ELSE None])
    /\ request' = NoRequest
    /\ pc' = "idle"
    /\ query' = None
    /\ conversation_history' = None
    /\ tool_decls' = <<>>
    /\ tool_manager' = FALSE
    /\ response' = NoResponse
    /\ idx' = 0
    /\ contents' = <<>>
    /\ session_id' = None
    /\ result' = NoResult
    /\ ret' = NoReturn
    /\ submissions' = <<>>
    /\ responses' = <<>>
    /\ dispatches' = <<>>
    /\ session_calls' = <<>>
    /\ populated' = <<>>
    /\ stale_sources' = <<>>
    /\ UNCHANGED <<toolVars, caller, nqueries, sessions, fmtVars, lastVars, outlineVars,
                   exchanged, pending, next_session>>

AppInit ==
    /\ registry = <<SEARCH_TOOL, OUTLINE_TOOL>>
    /\ sources = [n \in {SEARCH_TOOL} |-> <<>>]
    /\ CallInit("query")
    /\ StoreInit(NoSessions, 0)
    /\ UnitInit(EmptyResults(None), <<>>, NoIndex)

AppNext ==
    \/ \E sid \in SessionIds \cup {None, ""} : Receive(AppQuery(Received + 1), sid)
    \/ \E req \in pending : HandleStart(req)
    \/ \E r \in AppResponses : FirstResponse(r)
    \/ \E n \in {SEARCH_TOOL, UNKNOWN_TOOL} : \E index \in IndexOutcomes(n) :
          /\ pc = "dispatch"
          /\ idx <= Len(response.parts)
          /\ HasCall(response.parts[idx]) => response.parts[idx].function_call[1].name = n
          /\ ~HasCall(response.parts[idx]) => n = UNKNOWN_TOOL
          /\ ToolStep(index)
    \/ FinalCall
    \/ \E r \in Responses(0) : FinalResponse(r)
    \/ QueryFinish
    \/ HandleFinish

AppSpec == AppInit /\ [][AppNext]_vars

(***************************************************************************)
(* CourseSearchTool._format_results called by itself, as its test does     *)
(***************************************************************************)
DocChoices == {"doc1", "doc2"}

\* metadata dictionaries of the vector index; any key may be missing
MetaChoices ==
    { [course_title |-> "course1", lesson_number |-> 1, lesson_link |-> "link1"],
      [course_title |-> "course2", lesson_number |-> 2, lesson_link |-> "link2"],
      [course_title |-> "course1", lesson_number |-> 0],
      [course_title |-> "course2", lesson_link |-> "link2"],
      [course_title |-> "course1"],
      [lesson_number |-> 1],
      [lesson_link |-> "link1"] }

FmtInputs ==
    {SearchResults(d, m, None) : d \in SeqsUpTo(DocChoices, MaxResults),
                                 m \in SeqsUpTo(MetaChoices, MaxResults)}
    \cup {EmptyResults("No relevant content found."), EmptyResults("No results found")}

\* the tool may hold sources of an earlier search when it is called
OldSources == {<<>>, <<[source |-> "course9", link |-> None]>>}

FmtInit == \E res \in FmtInputs, old \in OldSources : InitFor("direct", res, old)

\* lines 76-107: the results are formatted and the sources are stored
Format ==
    /\ ~fmt_done
    /\ LET f == format_results(fmt_results)
       IN  /\ fmt_text' = f.text
           /\ sources' = [sources EXCEPT ![SEARCH_TOOL] = f.last_sources]
    /\ fmt_done' = TRUE
    /\ fmt_op' = "format"
    /\ UNCHANGED <<unitVars, registry, coordVars, frameVars, logVars, pc, caller, result,
                   fmt_results, fmt_old>>

\* the arguments the tool is executed with
SearchArgChoices == {[query |-> "mcp"], [query |-> "mcp", course_name |-> "MCP"]}

\* lines 60-74: execute called by itself, the index answering fmt_results
SearchExecute(args) ==
    /\ ~fmt_done
    /\ LET e == CourseSearchTool_execute(args, [kind |-> "results", results |-> fmt_results],
                                         sources[SEARCH_TOOL])
       IN  /\ fmt_text' = e.outcome.value
           /\ sources' = [sources EXCEPT ![SEARCH_TOOL] = e.last_sources]
    /\ fmt_done' = TRUE
    /\ fmt_op' = "execute"
    /\ UNCHANGED <<unitVars, registry, coordVars, frameVars, logVars, pc, caller, result,
                   fmt_results, fmt_old>>

FmtNext ==
    \/ Format
    \/ \E args \in SearchArgChoices : SearchExecute(args)

FmtSpec == FmtInit /\ [][FmtNext]_vars

(***************************************************************************)
(* ToolManager called by itself                                            *)
(***************************************************************************)
\* the tools offered for registration, as constructed (last_sources = [],
\* line 31); the last two have a declaration without a name
ToolChoices ==
    { Tool(SEARCH_TOOL, TRUE, <<>>), Tool(OUTLINE_TOOL, FALSE, <<>>),
      Tool(EXTRA_TOOL, TRUE, <<>>), Tool("", FALSE, <<>>), Tool(None, TRUE, <<>>) }

\* the arguments a tool is executed with
ArgsFor(tool_name) ==
    IF tool_name = OUTLINE_TOOL THEN [course_name |-> "MCP"] ELSE [query |-> "mcp"]

\* a new ToolManager: self.tools = {}
MgrInit ==
    /\ registry = <<>>
    /\ sources = [n \in {} |-> <<>>]
    /\ CallInit("direct")
    /\ StoreInit([s \in SessionIds |-> <<>>], 0)
    /\ UnitInit(EmptyResults(None), <<>>, NoIndex)

\* lines 235-241
Register(tool) ==
    /\ Len(reg_log) < MaxRegistrations
    /\ LET r == register_tool(registry, sources, tool)
       IN  /\ registry' = r.registry
           /\ sources' = r.sources
           /\ last_ret' = r.outcome
           /\ reg_log' = IF r.outcome.kind = "return" THEN Append(reg_log, tool.name)
                         ELSE reg_log
    /\ last_op' = "register_tool"
    /\ last_arg' = tool
    /\ UNCHANGED <<callVars, fmtVars, appVars, outlineVars>>

\* lines 244-246
Declarations ==
    /\ last_op' = "get_tool_definitions"
    /\ last_arg' = None
    /\ last_ret' = Returned(get_tool_definitions(registry))
    /\ UNCHANGED <<toolVars, reg_log, callVars, fmtVars, appVars, outlineVars>>

\* lines 248-253; when a content search runs, fmt_results and fmt_old log
\* what the index gave to it and the last_sources it held before
Execute(tool_name, index) ==
    /\ LET e == execute_tool(registry, sources, tool_name, ArgsFor(tool_name), index)
           searched == e.ran # None /\ HasSources(sources, tool_name)
                       /\ index.search.kind = "results"
       IN  /\ sources' = e.sources
           /\ last_ret' = e.outcome
           /\ fmt_results' = IF searched THEN index.search.results ELSE fmt_results
           /\ fmt_old' = IF searched THEN sources[tool_name] ELSE fmt_old
    /\ last_op' = "execute_tool"
    /\ last_arg' = tool_name
    /\ UNCHANGED <<registry, reg_log, callVars, fmt_text, fmt_done, fmt_op, appVars,
                   outlineVars>>

\* lines 255-261
GetLastSources ==
    /\ last_op' = "get_last_sources"
    /\ last_arg' = None
    /\ last_ret' = Returned(get_last_sources(registry, sources))
    /\ UNCHANGED <<toolVars, reg_log, callVars, fmtVars, appVars, outlineVars>>

\* lines 263-267; stale_sources logs what get_last_sources() gave before
ResetSources ==
    /\ last_op' = "reset_sources"
    /\ last_arg' = None
    /\ last_ret' = Returned(None)
    /\ stale_sources' = get_last_sources(registry, sources)
    /\ sources' = reset_sources(registry, sources)
    /\ UNCHANGED <<registry, reg_log, pc, caller, result, frameVars, logVars, session_id, ret,
                   session_calls, nqueries, sessions, fmtVars, appVars, outlineVars>>

MgrNext ==
    \/ \E tool \in ToolChoices : Register(tool)
    \/ Declarations
    \/ \E n \in {SEARCH_TOOL, EXTRA_TOOL} : \E index \in IndexOutcomes(SEARCH_TOOL) :
          Execute(n, index)
    \/ \E n \in {OUTLINE_TOOL, UNKNOWN_TOOL} : \E index \in IndexOutcomes(n) :
          Execute(n, index)
    \/ GetLastSources
    \/ ResetSources

MgrSpec == MgrInit /\ [][MgrNext]_vars

(***************************************************************************)
(* Session store called by itself (modelled from the design, 4.5)          *)
(***************************************************************************)
StoreSpecInit ==
    /\ registry = <<SEARCH_TOOL, OUTLINE_TOOL>>
    /\ sources = [n \in {SEARCH_TOOL} |-> <<>>]
    /\ CallInit("direct")
    /\ StoreInit(NoSessions, 0)
    /\ UnitInit(EmptyResults(None), <<>>, NoIndex)

CreateSession ==
    /\ Cardinality(DOMAIN sessions) < MaxSessions
    /\ LET made == create_session(sessions, next_session)
       IN  /\ sessions' = made.store
           /\ next_session' = made.counter
           /\ exchanged' = [s \in DOMAIN made.store |->
                               IF s \in DOMAIN exchanged THEN exchanged[s] ELSE <<>>]
           /\ last_ret' = Returned(made.session_id)
    /\ last_op' = "create_session"
    /\ last_arg' = None
    /\ UNCHANGED <<toolVars, pc, caller, result, frameVars, logVars, session_id, ret,
                   session_calls, nqueries, stale_sources, fmtVars, reg_log, pending,
                   request, completed, outlineVars>>

AddExchange(sid, q, a) ==
    /\ TotalExchanges(exchanged) < MaxExchanges
    /\ Cardinality(DOMAIN sessions \cup {sid}) <= MaxSessions
    /\ sessions' = add_exchange(sessions, sid, q, a)
    /\ exchanged' = Logged(exchanged, sid, q, a)
    /\ last_op' = "add_exchange"
    /\ last_arg' = sid
    /\ last_ret' = Returned(None)
    /\ UNCHANGED <<toolVars, pc, caller, result, frameVars, logVars, session_id, ret,
                   session_calls, nqueries, stale_sources, fmtVars, reg_log, pending,
                   request, completed, next_session, outlineVars>>

GetHistory(sid) ==
    /\ last_op' = "get_conversation_history"
    /\ last_arg' = sid
    /\ last_ret' = Returned(get_conversation_history(sessions, sid))
    /\ UNCHANGED <<toolVars, callVars, fmtVars, reg_log, appVars, outlineVars>>

StoreNext ==
    \/ CreateSession
    \/ \E sid \in SessionIds, q \in Queries, a \in Texts : AddExchange(sid, q, a)
    \/ \E sid \in SessionIds : GetHistory(sid)

StoreSpec == StoreSpecInit /\ [][StoreNext]_vars

(***************************************************************************)
(* CourseOutlineTool.execute called by itself                              *)
(***************************************************************************)
\* the lessons a stored lesson list may hold; a key may be missing
LessonChoices ==
    { [lesson_number |-> 1, lesson_title |-> "Intro"],
      [lesson_number |-> 0, lesson_title |-> "Welcome"],
      [lesson_title |-> "Appendix"],
      [lesson_number |-> 2] }

\* metadata.get('lessons_json'): absent is "no key"; the text is empty, is
\* not JSON, or is the JSON of a list of lessons
LessonsJson ==
    { [kind |-> "empty_string", lessons |-> <<>>], [kind |-> "invalid", lessons |-> <<>>] }
    \cup {[kind |-> "list", lessons |-> l] : l \in SeqsUpTo(LessonChoices, MaxLessons)}

\* the metadata of a course of the catalog
CatalogMetadata ==
    LET titled == {[title |-> "MCP Course"], [x \in {} |-> None]}
        linked == {[course_link |-> "link0"], [x \in {} |-> None]}
        lessoned == {[lessons_json |-> j] : j \in LessonsJson} \cup {[x \in {} |-> None]}
    IN  {t @@ l @@ j : t \in titled, l \in linked, j \in lessoned}

\* what the vector index may answer to the outline tool
OutlineEnvs ==
    { [resolve |-> r, catalog |-> [kind |-> k, metadata |-> <<>>]] :
          r \in {"raise", None}, k \in {"none"} }
    \cup { [resolve |-> "MCP Course", catalog |-> [kind |-> k, metadata |-> <<>>]] :
              k \in {"raise", "none", "no_metadatas"} }
    \cup { [resolve |-> "MCP Course", catalog |-> [kind |-> "ok", metadata |-> m]] :
              m \in CatalogMetadata }

OutlineInit ==
    \E index \in OutlineEnvs :
        /\ registry = <<SEARCH_TOOL, OUTLINE_TOOL>>
        /\ sources = [n \in {SEARCH_TOOL} |-> <<>>]
        /\ CallInit("direct")
        /\ StoreInit([s \in SessionIds |-> <<>>], 0)
        /\ UnitInit(EmptyResults(None), <<>>, index)

\* lines 135-192
OutlineExecute(args) ==
    /\ outline_out = NoResult
    /\ outline_out' = CourseOutlineTool_execute(args, outline_index)
    /\ last_op' = "execute"
    /\ last_arg' = args
    /\ last_ret' = NoResult
    /\ UNCHANGED <<toolVars, callVars, fmtVars, appVars, reg_log, outline_index>>

OutlineNext == \E args \in {[course_name |-> "MCP"], [course_name |-> "Agents"]} : OutlineExecute(args)

OutlineSpec == OutlineInit /\ [][OutlineNext]_vars

(***************************************************************************)
(* Properties of the orchestrator                                          *)
(***************************************************************************)
\* the response contains a tool-call request, in whichever part
RequestsTool(r) == \E i \in 1..Len(r.parts) : HasCall(r.parts[i])

\* the response is made of exactly one part, a tool-call request
SingleCall(r) == Len(r.parts) = 1 /\ HasCall(r.parts[1])

\* the tool-call requests of a response, in the order of its parts
CallsOf(r) ==
    LET calling == SelectSeq(r.parts, HasCall)
    IN  [i \in 1..Len(calling) |-> calling[i].function_call[1]]

\* some dispatched tool call raised
SomeToolRaised == \E i \in 1..Len(dispatches) : dispatches[i].outcome.kind = "raise"

\* C1: whatever the engine answers, one call of generate_response invokes
\* the engine at most MAX_TOOL_ROUNDS + 1 times.
C1_EngineCallsBounded == Len(submissions) <= MAX_TOOL_ROUNDS + 1

\* a call has ended although both of the engine's responses asked for tools
C1_Witness ==
    /\ pc = "gen_done"
    /\ Len(responses) = 2
    /\ RequestsTool(responses[1])
    /\ RequestsTool(responses[2])
    /\ Len(submissions) = 2

\* C2: when the first and the second response each request a tool call (and
\* the third is tool-free), the engine is called exactly three times, the two
\* requested tools are dispatched in the order requested and the text of the
\* third response is returned.
C2_TwoSequentialRounds ==
    (/\ pc = "gen_done"
     /\ tool_manager
     /\ ~SomeToolRaised
     /\ Len(responses) >= 2
     /\ SingleCall(responses[1])
     /\ SingleCall(responses[2]))
    => (/\ Len(submissions) = 3
        /\ Len(responses) = 3
        /\ ~RequestsTool(responses[3])
        /\ Len(dispatches) = 2
        /\ dispatches[1].name = CallsOf(responses[1])[1].name
        /\ dispatches[1].args = CallsOf(responses[1])[1].args
        /\ dispatches[2].name = CallsOf(responses[2])[1].name
        /\ dispatches[2].args = CallsOf(responses[2])[1].args
        /\ result = Returned(responses[3].text))

\* C3: when a dispatched tool call raises, generate_response does not raise:
\* it returns the fixed failure sentence, and the failing dispatch is the last
\* dispatch and no engine call follows it.
C3_ToolFailureContained ==
    SomeToolRaised
    => (/\ pc = "gen_done"
        /\ result = Returned(TOOL_ERROR_MESSAGE)
        /\ dispatches[Len(dispatches)].outcome.kind = "raise"
        /\ \A i \in 1..(Len(dispatches) - 1) : dispatches[i].outcome.kind = "return"
        /\ Len(submissions) = Len(responses))

\* C4: when the first response contains no tool-call request, the engine is
\* called exactly once, nothing is dispatched and the text of that response is
\* returned unchanged, with or without a registry, with or without history.
C4_DirectAnswer ==
    (Len(responses) >= 1 /\ ~RequestsTool(responses[1]))
    => (/\ pc = "gen_done"
        /\ Len(submissions) = 1
        /\ Len(responses) = 1
        /\ dispatches = <<>>
        /\ result = Returned(responses[1].text))

\* a tool-free response made of a text part was answered to a call that had
\* a registry and a conversation history
C4_Witness ==
    /\ pc = "gen_done"
    /\ Len(responses) = 1
    /\ responses[1].parts # <<>>
    /\ ~RequestsTool(responses[1])
    /\ tool_manager
    /\ conversation_history # None
    /\ result = Returned(responses[1].text)

\* C5: when the first response contains exactly one tool-call request and the
\* next response is tool-free, the engine is called exactly twice, exactly one
\* tool is dispatched, with the requested name and the requested arguments,
\* and the text of the second response is returned.
C5_SingleToolCall ==
    (/\ pc = "gen_done"
     /\ tool_manager
     /\ ~SomeToolRaised
     /\ Len(responses) >= 1
     /\ Len(CallsOf(responses[1])) = 1
     /\ Len(responses) >= 2 => ~RequestsTool(responses[2]))
    => (/\ Len(submissions) = 2
        /\ Len(responses) = 2
        /\ Len(dispatches) = 1
        /\ dispatches[1].name = CallsOf(responses[1])[1].name
        /\ dispatches[1].args = CallsOf(responses[1])[1].args
        /\ result = Returned(responses[2].text))

\* C6: when the engine still requests a tool call in each of its first
\* MAX_TOOL_ROUNDS responses, every one of these rounds is dispatched and then
\* exactly one more submission is made, without tool declarations and with the
\* contents accumulated over all rounds, and its text is returned.
C6_ForcedFinalAtRoundLimit ==
    (/\ pc = "gen_done"
     /\ tool_manager
     /\ ~SomeToolRaised
     /\ Len(responses) >= MAX_TOOL_ROUNDS
     /\ \A i \in 1..MAX_TOOL_ROUNDS : SingleCall(responses[i]))
    => (/\ Len(submissions) = MAX_TOOL_ROUNDS + 1
        /\ Len(responses) = MAX_TOOL_ROUNDS + 1
        /\ Len(dispatches) = MAX_TOOL_ROUNDS
        /\ submissions[MAX_TOOL_ROUNDS + 1].tools = <<>>
        /\ \A i \in 1..MAX_TOOL_ROUNDS : submissions[i].tools = tool_decls
        /\ result = Returned(responses[MAX_TOOL_ROUNDS + 1].text))

\* the step of the loop is about a tool name that is not registered
C7_UnknownNext ==
    /\ pc = "dispatch"
    /\ idx <= Len(response.parts)
    /\ HasCall(response.parts[idx])
    /\ ~Registered(registry, response.parts[idx].function_call[1].name)

\* C7: dispatching a name that is not registered gives the text
\* "Tool '<name>' not found" and does not raise; no source list changes; in the
\* loop the text is appended as a tool result and the loop goes on towards the
\* next engine call.
C7_UnknownToolIsText ==
    [][C7_UnknownNext =>
         LET name == response.parts[idx].function_call[1].name
             text == "Tool '" \o name \o "' not found"
         IN  /\ sources' = sources
             /\ Len(dispatches') = Len(dispatches) + 1
             /\ dispatches'[Len(dispatches')].name = name
             /\ dispatches'[Len(dispatches')].outcome = [kind |-> "return", value |-> text]
             /\ contents' = Append(contents, Turn("function", <<ResultPart(name, text)>>))
             /\ pc' = "dispatch"
             /\ idx' = idx + 1
             /\ result' = result]_vars

\* an unknown name was dispatched after a search had stored sources, and the
\* follow-up call of the engine was made with the "not found" text in it
C7_Witness ==
    /\ pc = "await_final"
    /\ Len(dispatches) = 2
    /\ dispatches[2].name = UNKNOWN_TOOL
    /\ dispatches[2].outcome.value = "Tool 'lookup_instructor' not found"
    /\ sources[SEARCH_TOOL] # <<>>
    /\ Len(submissions) = 2
    /\ submissions[2].contents[4].parts[1].function_response[1].response.result
           = "Tool 'lookup_instructor' not found"

(***************************************************************************)
(* Properties of the query coordinator                                     *)
(***************************************************************************)
\* the calls a finished query has made to the session store
C8_Calls ==
    /\ (caller = "query" /\ session_id = None) => session_calls = <<>>
    /\ (pc = "query_done" /\ ret.kind = "return" /\ session_id # None)
       => session_calls =
            << [op |-> "get_conversation_history", session_id |-> session_id,
                query |-> None, answer |-> None],
               [op |-> "add_exchange", session_id |-> session_id,
                query |-> query, answer |-> ret.answer] >>

\* a step that changes the session store appends one exchange to the session
\* of the query that returns
C8_Step ==
    sessions' # sessions
    => /\ session_id # None
       /\ ret'.kind = "return"
       /\ DOMAIN sessions' = DOMAIN sessions
       /\ \A s \in DOMAIN sessions : s # session_id => sessions'[s] = sessions[s]
       /\ LET old == sessions[session_id]
              new == sessions'[session_id]
              added == [query |-> query, answer |-> ret'.answer]
          IN  \/ new = Append(old, added)
              \/ Len(old) = MAX_HISTORY /\ new = Append(Tail(old), added)

\* C8: a query without a session id never asks the session store for the
\* history and appends no exchange, so that no session changes; a query with a
\* session id asks for the history of that session once and appends exactly one
\* exchange (sid, text, answer), the answer being the text it returns.
C8_SessionUse == [](C8_Calls) /\ [][C8_Step]_vars

\* a query with a session id has returned after a tool round; its session
\* already held an exchange and now holds this one too
C8_Witness ==
    /\ pc = "query_done"
    /\ ret.kind = "return"
    /\ session_id # None
    /\ conversation_history # None
    /\ Len(dispatches) = 1
    /\ Len(sessions[session_id]) = 2
    /\ sessions[session_id][2] = [query |-> query, answer |-> ret.answer]

\* C9: the sources are reset before the orchestrator is called and read after
\* it has returned: the sources a query returns are those stored by a search of
\* that same query, and a query that runs no search returns no sources, also
\* when an earlier query left some.
C9_SourcesOfThisQuery ==
    /\ (caller = "query" /\ pc = "await_first")
       => get_last_sources(registry, sources) = <<>>
    /\ (pc = "query_done" /\ ret.kind = "return")
       => /\ ret.sources # <<>> => \E i \in 1..Len(populated) : populated[i] = ret.sources
          /\ populated = <<>> => ret.sources = <<>>

\* a query that ran no search has returned no sources although the query
\* before it had left sources in the search tool
C9_Witness ==
    /\ pc = "query_done"
    /\ ret.kind = "return"
    /\ stale_sources # <<>>
    /\ populated = <<>>
    /\ ret.sources = <<>>

(***************************************************************************)
(* Properties of the content search formatting                             *)
(***************************************************************************)
\* the label of a result: the course title, with the lesson when there is one
C10_Label(meta) ==
    IF "lesson_number" \in DOMAIN meta
    THEN meta.course_title \o " - Lesson " \o ToString(meta.lesson_number)
    ELSE meta.course_title

\* the blocks of the pairs, each block followed by a blank line but the last
RECURSIVE C10_Text(_, _)
C10_Text(docs, metas) ==
    IF docs = <<>> \/ metas = <<>> THEN ""
    ELSE LET block == "[" \o C10_Label(Head(metas)) \o "]" \o "\n" \o Head(docs)
         IN  IF Tail(docs) = <<>> \/ Tail(metas) = <<>>
             THEN block
             ELSE block \o "\n\n" \o C10_Text(Tail(docs), Tail(metas))

\* every pair of the results has a course title
C10_Titled(res) == \A i \in 1..ZipLen(res) : "course_title" \in DOMAIN res.metadata[i]

\* C10: the formatted text is one block per (document, metadata) pair, in the
\* order of the results, each block being "[<course_title>]" or
\* "[<course_title> - Lesson <n>]", a newline and the document, the blocks
\* being joined by a blank line; last_sources is the parallel list of the
\* labels without brackets, each with the lesson link of its metadata.
C10_FormatResults ==
    (fmt_done /\ C10_Titled(fmt_results))
    => LET docs == fmt_results.documents
           metas == fmt_results.metadata
           stored == sources[SEARCH_TOOL]
       IN  /\ fmt_text = C10_Text(docs, metas)
           /\ Len(stored) = ZipLen(fmt_results)
           /\ \A i \in 1..Len(stored) :
                /\ stored[i].source = C10_Label(metas[i])
                /\ stored[i].link = (IF "lesson_link" \in DOMAIN metas[i]
                                     THEN metas[i].lesson_link ELSE None)

\* the case of the test of _format_results
C10_Witness ==
    /\ fmt_done
    /\ fmt_results.documents = <<"doc1", "doc2">>
    /\ fmt_text = "[course1 - Lesson 1]\ndoc1\n\n[course2 - Lesson 2]\ndoc2"
    /\ sources[SEARCH_TOOL] = << [source |-> "course1 - Lesson 1", link |-> "link1"],
                                 [source |-> "course2 - Lesson 2", link |-> "link2"] >>

(***************************************************************************)
(* Properties of the tools                                                 *)
(***************************************************************************)
\* C11: when the vector index answers SearchResults.empty(reason), whatever
\* the reason, execute of the content search tool returns the empty string
\* and last_sources is empty afterwards, whatever it held before the call.
C11_EmptyResults ==
    (fmt_op = "execute" /\ fmt_results.documents = <<>> /\ fmt_results.metadata = <<>>)
        => (fmt_text = "" /\ sources[SEARCH_TOOL] = <<>>)

C11_Witness ==
    /\ fmt_op = "execute"
    /\ fmt_results = EmptyResults("No results found")
    /\ fmt_old # <<>>
    /\ fmt_text = ""
    /\ sources[SEARCH_TOOL] = <<>>

\* every tool that exposes a source list has it empty
AllEmpty(src) == \A n \in DOMAIN src : src[n] = <<>>

\* C12: after reset_sources() every registered tool that exposes a source
\* list has it empty and get_last_sources() gives the empty list; the lists
\* stay empty until a content search is executed; the reset leaves the
\* registered tools and their order as they were.
C12_Step ==
    /\ last_op' = "reset_sources" =>
          /\ AllEmpty(sources')
          /\ get_last_sources(registry', sources') = <<>>
          /\ registry' = registry
          /\ DOMAIN sources' = DOMAIN sources
          /\ reg_log' = reg_log
    /\ (AllEmpty(sources) /\ ~AllEmpty(sources')) =>
          /\ last_op' = "execute_tool"
          /\ HasSources(sources, last_arg')

C12_ResetSources == [][C12_Step]_vars

C12_Witness ==
    /\ last_op = "reset_sources"
    /\ stale_sources # <<>>
    /\ registry = <<OUTLINE_TOOL, EXTRA_TOOL, SEARCH_TOOL>>
    /\ AllEmpty(sources)

\* the positions of the registry whose tool exposes a non-empty list
NonEmptyAt(reg, src) == {i \in 1..Len(reg) : reg[i] \in DOMAIN src /\ src[reg[i]] # <<>>}

\* C13: get_last_sources() gives the source list of the first tool, in
\* registration order, whose list is non-empty, or the empty list when
\* there is none; it changes nothing, so that two calls in a row give the
\* same value.
C13_Step ==
    last_op' = "get_last_sources" =>
        /\ LET S == NonEmptyAt(registry, sources)
           IN  last_ret'.value = IF S = {} THEN <<>>
                                ELSE sources[registry[CHOOSE i \in S : \A j \in S : i <= j]]
        /\ UNCHANGED <<registry, sources, reg_log>>
        /\ last_op = "get_last_sources" => last_ret' = last_ret

C13_FirstNonEmpty == [][C13_Step]_vars

C13_Witness ==
    /\ last_op = "get_last_sources"
    /\ Len(registry) = 3
    /\ Cardinality(NonEmptyAt(registry, sources)) = 2
    /\ HasSources(sources, registry[1])
    /\ last_ret.value = sources[registry[1]]
    /\ last_ret.value # sources[registry[3]]

\* the names of log without their later repetitions
RECURSIVE FirstOccurrences(_)
FirstOccurrences(log) ==
    IF Len(log) = 0 THEN <<>>
    ELSE LET front == FirstOccurrences(SubSeq(log, 1, Len(log) - 1))
             last == log[Len(log)]
         IN  IF \E i \in 1..Len(front) : front[i] = last THEN front ELSE Append(front, last)

\* C14: register_tool stores the tool under the name of its declaration; a
\* tool whose declaration has no name is refused with a configuration error
\* and the registry stays as it was; get_tool_definitions() gives one
\* declaration per registered name, in the order of registration.
C14_Step ==
    last_op' = "register_tool" =>
        IF last_arg'.name \in {None, ""}
        THEN /\ last_ret' = Raised("ValueError")
             /\ UNCHANGED <<registry, sources, reg_log>>
        ELSE /\ last_ret'.kind = "return"
             /\ Registered(registry', last_arg'.name)
             /\ HasSources(sources', last_arg'.name) <=> last_arg'.keeps

C14_Declared ==
    last_op = "get_tool_definitions" =>
        /\ last_ret.value = FirstOccurrences(reg_log)
        /\ \A i, j \in 1..Len(last_ret.value) : last_ret.value[i] = last_ret.value[j] => i = j
        /\ \A i \in 1..Len(last_ret.value) : last_ret.value[i] \notin {None, ""}

C14_Registry == [][C14_Step]_vars /\ []C14_Declared

C14_Witness ==
    /\ last_op = "get_tool_definitions"
    /\ reg_log = <<OUTLINE_TOOL, SEARCH_TOOL, OUTLINE_TOOL>>
    /\ last_ret.value = <<OUTLINE_TOOL, SEARCH_TOOL>>

(***************************************************************************)
(* Properties of the session store                                         *)
(***************************************************************************)
\* the last n elements of a sequence, all of it when it is shorter
LastN(seq, n) == IF Len(seq) <= n THEN seq ELSE SubSeq(seq, Len(seq) - n + 1, Len(seq))

\* the exchanges of a window in lines, the oldest first
RECURSIVE Rendered(_)
Rendered(window) ==
    IF Len(window) = 0 THEN ""
    ELSE (IF Len(window) = 1 THEN "" ELSE Rendered(SubSeq(window, 1, Len(window) - 1)) \o "\n")
         \o "User: " \o window[Len(window)].query
         \o "\nAssistant: " \o window[Len(window)].answer

\* C15: after any sequence of add_exchange on a session, its history holds
\* at most MAX_HISTORY exchanges, and they are the most recently added
\* ones, in the order they were added: the oldest is evicted first;
\* get_conversation_history renders that window with the oldest first.
C15_Window ==
    /\ DOMAIN sessions = DOMAIN exchanged
    /\ \A s \in DOMAIN sessions :
          /\ Len(sessions[s]) <= MAX_HISTORY
          /\ sessions[s] = LastN(exchanged[s], MAX_HISTORY)
    /\ last_op = "get_conversation_history" =>
          LET window == IF last_arg \in DOMAIN exchanged
                        THEN LastN(exchanged[last_arg], MAX_HISTORY) ELSE <<>>
          IN  last_ret.value = IF window = <<>> THEN None ELSE Rendered(window)

C15_Witness ==
    /\ last_op = "get_conversation_history"
    /\ last_arg \in DOMAIN exchanged
    /\ Len(exchanged[last_arg]) > MAX_HISTORY
    /\ exchanged[last_arg][1] # exchanged[last_arg][Len(exchanged[last_arg])]
    /\ last_ret.value = Rendered(Tail(exchanged[last_arg]))

\* the exchanges of the requests answered with success in session s, in the
\* order of the answers
RECURSIVE Answered(_, _)
Answered(done, s) ==
    IF Len(done) = 0 THEN <<>>
    ELSE LET front == Answered(SubSeq(done, 1, Len(done) - 1), s)
             last == done[Len(done)]
         IN  IF last.status = 200 /\ last.session_id = s
             THEN Append(front, Exchange(last.request.query, last.answer))
             ELSE front

\* C16: with requests of several clients waiting at once, the history of a
\* session changes only when the query of that session appends its
\* exchange, and no append is lost: when no handler runs, the history of
\* every session is made of the exchanges of the queries answered in it,
\* in the order of the answers, but for those the window evicted.
C16_Quiet ==
    request = NoRequest =>
        \A s \in DOMAIN sessions : sessions[s] = LastN(Answered(completed, s), MAX_HISTORY)

C16_Step ==
    \A s \in DOMAIN sessions :
        sessions'[s] # sessions[s] => (pc = "gen_done" /\ session_id = s)

C16_NoLostUpdate == []C16_Quiet /\ [][C16_Step]_vars

C16_Witness ==
    /\ request = NoRequest
    /\ Len(completed) = 2
    /\ \A i \in 1..2 : /\ completed[i].request.seen = 0
                        /\ completed[i].status = 200
                        /\ completed[i].session_id = "session_1"
    /\ Len(sessions["session_1"]) = 2
    /\ sessions["session_1"][1].query # sessions["session_1"][2].query

(***************************************************************************)
(* Further properties of the orchestrator and of the outline tool          *)
(***************************************************************************)
\* C17: when the engine's response asks for a tool and generate_response
\* was given no tool_manager, the call ends after that one engine call:
\* nothing is dispatched, the engine is not called again and the text of
\* the response is returned.
C17_NoRegistry ==
    (Len(responses) >= 1 /\ RequestsTool(responses[1]) /\ ~tool_manager)
    => (/\ pc = "gen_done"
        /\ Len(submissions) = 1
        /\ Len(responses) = 1
        /\ dispatches = <<>>
        /\ result = Returned(responses[1].text))

\* the tools were declared to the engine, its first part asks for one
C17_Witness ==
    /\ pc = "gen_done"
    /\ ~tool_manager
    /\ tool_decls # <<>>
    /\ Len(responses) = 1
    /\ SingleCall(responses[1])
    /\ result = Returned(responses[1].text)

\* the lesson list of the course of the catalog, when a course was found
\* with its metadata
StoredLessons(index) == Get(index.catalog.metadata, "lessons_json", [kind |-> "absent"])

\* C18: execute of the outline tool returns a descriptive text and raises
\* nothing when the course name is not resolved, when the catalog lookup
\* fails, when the catalog has no metadata for the course, when the lesson
\* list is absent, when it is empty and when the lesson data cannot be parsed.
C18_NotFoundIsText ==
    outline_out # NoResult =>
        LET index == outline_index
            found == index.resolve \notin {"raise", None}
            stored == found /\ index.catalog.kind = "ok"
            title == Get(index.catalog.metadata, "title", "Unknown Course")
        IN  /\ index.resolve = None =>
                  outline_out = Returned("Could not find a course named '"
                                         \o last_arg["course_name"] \o "'.")
            /\ (found /\ index.catalog.kind = "raise") =>
                  outline_out = Returned("An error occurred while fetching course details.")
            /\ (found /\ index.catalog.kind \in {"none", "no_metadatas"}) =>
                  outline_out = Returned("Could not retrieve metadata for course '"
                                         \o index.resolve \o "'.")
            /\ (stored /\ StoredLessons(index).kind \in {"absent", "empty_string"}) =>
                  outline_out = Returned("No lessons found for course '" \o title \o "'.")
            /\ (stored /\ StoredLessons(index).kind = "list"
                        /\ StoredLessons(index).lessons = <<>>) =>
                  outline_out = Returned("No lessons listed for course '" \o title \o "'.")
            /\ (stored /\ StoredLessons(index).kind = "invalid") =>
                  outline_out = Returned("Error parsing lesson data.")
            /\ index.resolve # "raise" => outline_out.kind = "return" /\ outline_out.value # ""

C18_Witness ==
    /\ outline_index.resolve = "MCP Course"
    /\ outline_index.catalog.kind = "ok"
    /\ "title" \in DOMAIN outline_index.catalog.metadata
    /\ StoredLessons(outline_index).kind = "invalid"
    /\ outline_out = Returned("Error parsing lesson data.")

\* C19: provided the calls of the engine and the executions of the tools
\* end, every call of generate_response ends, and it ends by returning a
\* text unless a tool execution raised; the engine cannot keep it going by
\* asking for tools again and again.
C19_Terminates ==
    (pc = "await_first") ~>
        (pc = "gen_done" /\ (SomeToolRaised \/ (result.kind = "return" /\ result.value \in Texts)))

\* a call has returned a text after the engine asked for tools twice
C19_Witness ==
    /\ pc = "gen_done"
    /\ result.kind = "return"
    /\ Len(responses) = 2
    /\ RequestsTool(responses[2])
    /\ Len(dispatches) >= 1

\* C20: whenever the first response asks for a tool in any of its parts and
\* a tool_manager was given, every tool call of that response is dispatched
\* exactly once, in a call that went on to a follow-up: the response is
\* not returned as the answer.
C20_EveryCallDispatched ==
    (/\ pc = "gen_done"
     /\ tool_manager
     /\ ~SomeToolRaised
     /\ Len(responses) >= 1
     /\ RequestsTool(responses[1]))
    => (/\ Len(responses) >= 2
        /\ Len(dispatches) >= Len(CallsOf(responses[1]))
        /\ \A i \in 1..Len(CallsOf(responses[1])) :
              /\ dispatches[i].name = CallsOf(responses[1])[i].name
              /\ dispatches[i].args = CallsOf(responses[1])[i].args)

\* C21: the tool calls of a response are dispatched one at a time in the
\* order of its parts, and the contents of the next engine call hold the
\* assistant turn made of those parts followed by one function turn per
\* dispatched call, in the same order, each with the text the registry
\* returned for the call and with the name of the called tool.
C21_DispatchOrder ==
    /\ pc = "dispatch" =>
          LET calls == CallsOf(response)
          IN  /\ Len(dispatches) <= Len(calls)
              /\ \A i \in 1..Len(dispatches) :
                    dispatches[i].name = calls[i].name /\ dispatches[i].args = calls[i].args
    /\ Len(submissions) >= 2 =>
          LET calls == CallsOf(responses[1])
              sent == submissions[2].contents
              at == {j \in 1..Len(sent) : sent[j].role = "assistant"}
              k == IF at = {} THEN 0 ELSE CHOOSE j \in at : \A h \in at : j <= h
          IN  /\ k >= 1
              /\ sent[k] = Turn("assistant", responses[1].parts)
              /\ Len(dispatches) = Len(calls)
              /\ Len(sent) = k + Len(calls)
              /\ \A i \in 1..Len(calls) :
                    /\ dispatches[i].name = calls[i].name
                    /\ dispatches[i].args = calls[i].args
                    /\ dispatches[i].outcome.kind = "return"
                    /\ sent[k + i] = Turn("function",
                           <<[text |-> None, function_call |-> <<>>,
                              function_response |->
                                  <<[name |-> calls[i].name,
                                     response |-> [result |-> dispatches[i].outcome.value]]>>]>>)

\* two different tools were called in one response and gave different texts
C21_Witness ==
    /\ Len(submissions) = 2
    /\ Len(dispatches) = 2
    /\ dispatches[1].name = OUTLINE_TOOL
    /\ dispatches[2].name = SEARCH_TOOL
    /\ dispatches[1].outcome.value # dispatches[2].outcome.value
    /\ dispatches[2].outcome.value # ""

\* C22: every submission to the engine, the first and every later one,
\* holds the system instruction turn, and the contents of each later
\* submission start with the contents of the one before it: the optional
\* history turn, the system instruction and the user query, in that order,
\* come before the appended assistant and function turns.
C22_SystemInstructionEveryRound ==
    /\ \A i \in 1..Len(submissions) :
          \E j \in 1..Len(submissions[i].contents) :
              submissions[i].contents[j] = Turn("user", <<TextPart(SYSTEM_PROMPT)>>)
    /\ \A i \in 2..Len(submissions) :
          LET before == submissions[i - 1].contents
              after == submissions[i].contents
          IN  /\ Len(before) <= Len(after)
              /\ SubSeq(after, 1, Len(before)) = before

\* C23: an execution of the content search tool overwrites last_sources:
\* after any sequence of executions on one tool, last_sources is the list of
\* the sources of the results of the latest execution, one entry per
\* result, whatever the tool held before.
C23_Step ==
    (/\ last_op' = "execute_tool"
     /\ HasSources(sources, last_arg')
     /\ last_ret'.kind = "return")
    => LET got == fmt_results'
           n == IF Len(got.documents) <= Len(got.metadata)
                THEN Len(got.documents) ELSE Len(got.metadata)
       IN  /\ Len(sources'[last_arg']) = n
           /\ \A i \in 1..n :
                 LET meta == got.metadata[i]
                     title == IF "course_title" \in DOMAIN meta
                              THEN meta["course_title"] ELSE "unknown"
                 IN  /\ sources'[last_arg'][i].source =
                           IF "lesson_number" \in DOMAIN meta
                           THEN title \o " - Lesson " \o ToString(meta["lesson_number"])
                           ELSE title
                     /\ sources'[last_arg'][i].link =
                           IF "lesson_link" \in DOMAIN meta THEN meta["lesson_link"] ELSE None
           /\ \A t \in DOMAIN sources \ {last_arg'} : sources'[t] = sources[t]

C23_Overwritten == [][C23_Step]_vars

\* a search with one result followed a search with another result
C23_Witness ==
    /\ last_op = "execute_tool"
    /\ last_arg = SEARCH_TOOL
    /\ last_ret.kind = "return"
    /\ fmt_old # <<>>
    /\ Len(sources[SEARCH_TOOL]) = 1
    /\ sources[SEARCH_TOOL] # fmt_old

\* C24: when more than one registered tool holds a non-empty source list
\* since the last reset, get_last_sources returns the sources of the tool
\* that populated its list most recently.
C24_Step ==
    (/\ last_op = "execute_tool"
     /\ HasSources(sources, last_arg)
     /\ last_ret.kind = "return"
     /\ sources[last_arg] # <<>>
     /\ Cardinality(NonEmptyAt(registry, sources)) >= 2
     /\ last_op' = "get_last_sources")
    => last_ret'.value = sources[last_arg]

C24_MostRecentlyPopulated == [][C24_Step]_vars

\* the sources the content searches of the running query left, the latest
\* search deciding
OwnSources == IF populated = <<>> THEN <<>> ELSE populated[Len(populated)]

\* C25: with requests of several clients waiting on the one shared
\* registry, the sources answered for a query are those its own searches
\* left (none when it searched nothing), never those of another query, and
\* from a search of the running query up to the reading of its sources no
\* other request's reset or search touches the shared list.
C25_Unread ==
    (request # NoRequest /\ pc \in {"dispatch", "await_final", "gen_done"})
    => get_last_sources(registry, sources) = OwnSources

C25_Step ==
    /\ (pc = "gen_done" /\ pc' = "query_done" /\ ret'.kind = "return")
       => ret'.sources = OwnSources
    /\ Len(completed') = Len(completed) + 1
       => LET done == completed'[Len(completed')]
          IN  /\ done.request = request
              /\ done.status = 200 => done.sources = OwnSources

C25_NoLeakage == []C25_Unread /\ [][C25_Step]_vars

\* two requests waited together; the first was answered with the sources of
\* its search, the second searched nothing and was answered with none
C25_Witness ==
    /\ Len(completed) = 2
    /\ completed[2].request.seen = 0
    /\ completed[1].status = 200
    /\ completed[2].status = 200
    /\ completed[1].sources # <<>>
    /\ completed[2].sources = <<>>

\* the query called the outline tool and no other tool
OutlineOnly ==
    /\ dispatches # <<>>
    /\ \A i \in 1..Len(dispatches) : dispatches[i].name = OUTLINE_TOOL

\* C26: an execution of the outline tool, whatever its outcome, leaves
\* every tool's source list as it was; a query that calls only the outline
\* tool returns an empty source list, and an outline call made after a
\* content search in the same query leaves the sources of that search to
\* be returned.
C26_Returned ==
    (pc = "query_done" /\ ret.kind = "return")
    => /\ OutlineOnly => ret.sources = <<>>
       /\ \A i \in 1..Len(dispatches) :
             (/\ dispatches[i].name = SEARCH_TOOL
              /\ \A j \in (i + 1)..Len(dispatches) : dispatches[j].name = OUTLINE_TOOL)
             => /\ populated # <<>>
                /\ ret.sources = populated[Len(populated)]

C26_Step ==
    (/\ Len(dispatches') = Len(dispatches) + 1
     /\ dispatches'[Len(dispatches')].name = OUTLINE_TOOL)
    => sources' = sources

C26_OutlineKeepsSources == []C26_Returned /\ [][C26_Step]_vars

\* a query searched, found a result, then asked for an outline, and
\* returned the sources of the search
C26_Witness ==
    /\ pc = "query_done"
    /\ ret.kind = "return"
    /\ Len(dispatches) = 2
    /\ dispatches[1].name = SEARCH_TOOL
    /\ dispatches[2].name = OUTLINE_TOOL
    /\ ret.sources # <<>>

\* the request names no session
Anonymous(req) == req.session_id \in {None, ""}

\* C27: /api/query always runs the query with a session: a request without
\* a session id creates exactly one new session before the query and is
\* answered with that new id; a request with a session id creates no
\* session and is answered with the same id; the session_id of a successful
\* response is the one the exchange was recorded under.
C27_Session ==
    request # NoRequest
    => /\ session_id \notin {None, ""}
       /\ ~Anonymous(request) => session_id = request.session_id

C27_Step ==
    /\ (request = NoRequest /\ request' # NoRequest)
       => IF Anonymous(request')
          THEN /\ session_id' \notin DOMAIN sessions
               /\ DOMAIN sessions' = DOMAIN sessions \cup {session_id'}
               /\ sessions'[session_id'] = <<>>
               /\ \A s \in DOMAIN sessions : sessions'[s] = sessions[s]
               /\ next_session' > next_session
          ELSE /\ sessions' = sessions
               /\ next_session' = next_session
    /\ request' = request
       => /\ next_session' = next_session
          /\ request # NoRequest
             => /\ session_id' = session_id
                /\ DOMAIN sessions' \subseteq DOMAIN sessions \cup {session_id}
    /\ (request # NoRequest /\ request' = NoRequest)
       => LET done == completed'[Len(completed')]
          IN  /\ Len(completed') = Len(completed) + 1
              /\ done.request = request
              /\ sessions' = sessions
              /\ next_session' = next_session
              /\ done.status = 200
                 => /\ done.session_id = session_id
                    /\ session_id \in DOMAIN exchanged
                    /\ exchanged[session_id] # <<>>
                    /\ exchanged[session_id][Len(exchanged[session_id])]
                          = Exchange(request.query, done.answer)
                    /\ sessions[session_id] # <<>>
                    /\ sessions[session_id][Len(sessions[session_id])]
                          = Exchange(request.query, done.answer)

C27_AlwaysSession == []C27_Session /\ [][C27_Step]_vars

\* a request without a session id was answered under a new session, and a
\* request naming that session was answered under it
C27_Witness ==
    /\ Len(completed) = 2
    /\ completed[1].status = 200
    /\ completed[2].status = 200
    /\ completed[1].request.session_id = ""
    /\ completed[1].session_id = "session_1"
    /\ completed[2].request.session_id = "session_1"
    /\ completed[2].session_id = "session_1"
    /\ Len(sessions["session_1"]) = 2

====
